---- MODULE Spec2Model ----
(***************************************************************************)
(* Basket analysis core: ProductGraph (graph.py), GraphAlgorithms          *)
(* (algorithms.py) and FrequentItemsetMiner (mining.py).                   *)
(*                                                                         *)
(* A Python dict is modelled as a sequence of <<key, value>> pairs in      *)
(* insertion order, because traversal orders and stable sorts depend on    *)
(* that order.  The outer adjacency dict is only ever summed over or       *)
(* looked up, so it is a function whose DOMAIN is its key set.  The        *)
(* Python set `nodes` has no defined iteration order: every order is a     *)
(* possible outcome.                                                       *)
(***************************************************************************)
EXTENDS Integers, Sequences, FiniteSets, TLC

VARIABLES nodes, graph, transactions, min_support, call

vars == <<nodes, graph, transactions, min_support, call>>

\* ------------------------------------------------------------------ bounds
Items == {"a", "b", "c"}

\* largest sum of the add_edge weights present in the graph (an edge weight
\* is an unbounded int); every add_edge adds 2*weight to the stored entries
MaxTotal == 3

\* largest weight argument passed to add_edge
MaxAdd == 2

\* largest max_depth / distance argument of a traversal
MaxDepth == 2

\* largest n (number of entries asked for) of a ranking query
MaxN == 2

\* most items in a basket
MaxBasket == 2

\* most pairs (with repetition) that repeated graph builds may add
MaxPairs == 6

\* most add_edge calls of weight 1 on the graph over four items
MaxDeepEdges == 4

\* largest max_bundle_size of a bundle query
MaxBundle == 3

\* most transactions, and most items in all of them, of a loader whose
\* graph and transactions are then queried
MaxFrameTx == 2
MaxFrameItems == 3

\* sorted() on item names: "a" < "b" < "c"
ItemOrder == <<"a", "b", "c">>

\* most transactions in a transaction list, most items in all of them
MaxTx == 3

MaxItemsTotal == 4

\* largest k passed to find_frequent_k_itemsets
MaxK == 3

\* min_support is min_support / SupportDen and min_confidence is
\* min_confidence / ConfDen
SupportDen == 2

ConfDen == 2

\* ------------------------------------------------------- dict primitives
DictKeys(d) == {d[i][1] : i \in 1..Len(d)}

DictGet(d, k) == d[CHOOSE i \in 1..Len(d) : d[i][1] = k][2]

DictSet(d, k, v) ==
    IF k \in DictKeys(d)
    THEN [i \in 1..Len(d) |-> IF d[i][1] = k THEN <<k, v>> ELSE d[i]]
    ELSE Append(d, <<k, v>>)

DictDel(d, k) ==
    LET keep(e) == e[1] # k IN SelectSeq(d, keep)

\* s[:n]
Slice(s, n) ==
    IF n >= 0 THEN SubSeq(s, 1, IF n < Len(s) THEN n ELSE Len(s))
    ELSE SubSeq(s, 1, IF Len(s) + n > 0 THEN Len(s) + n ELSE 0)

\* sorted(d.items(), key=lambda x: x[1], reverse=True): stable, so entries
\* of equal weight keep their dict order
RECURSIVE InsertByWeight(_, _)
InsertByWeight(s, e) ==
    IF s = <<>> THEN <<e>>
    ELSE IF e[2] > Head(s)[2] THEN <<e>> \o s
    ELSE <<Head(s)>> \o InsertByWeight(Tail(s), e)

RECURSIVE SortByWeightDesc(_)
SortByWeightDesc(s) ==
    IF s = <<>> THEN <<>>
    ELSE InsertByWeight(SortByWeightDesc(SubSeq(s, 1, Len(s) - 1)), s[Len(s)])

\* defaultdict(dict).__getitem__: a missing key is created with {}
Touch(g, k) ==
    IF k \in DOMAIN g THEN g
    ELSE [x \in (DOMAIN g) \cup {k} |-> IF x = k THEN <<>> ELSE g[x]]

\* ------------------------------------------------------------ ProductGraph
\* a graph value is a record [nodes, graph]
EmptyGraph == [nodes |-> {}, graph |-> <<>>]

add_node(st, item) ==
    IF item \notin st.nodes
    THEN [nodes |-> st.nodes \cup {item},
          graph |-> IF item \notin DOMAIN st.graph
                    THEN [x \in (DOMAIN st.graph) \cup {item} |->
                             IF x = item THEN <<>> ELSE st.graph[x]]
                    ELSE st.graph]
    ELSE st

\* the statement  d[k] += w  /  d[k] = w  of add_edge, on one inner dict
Bump(row, k, weight) ==
    IF k \in DictKeys(row)
    THEN DictSet(row, k, DictGet(row, k) + weight)
    ELSE DictSet(row, k, weight)

\* add_edge without the reverse direction (lines 57-61 left out)
add_edge_oneway(st, item1, item2, weight) ==
    LET s1 == add_node(add_node(st, item1), item2)
        g1 == Touch(s1.graph, item1)
        g2 == [g1 EXCEPT ![item1] = Bump(g1[item1], item2, weight)]
    IN [nodes |-> s1.nodes, graph |-> g2]

add_edge(st, item1, item2, weight) ==
    LET s1 == add_node(add_node(st, item1), item2)
        g1 == Touch(s1.graph, item1)
        g2 == [g1 EXCEPT ![item1] = Bump(g1[item1], item2, weight)]
        g3 == Touch(g2, item2)
        g4 == [g3 EXCEPT ![item2] = Bump(g3[item2], item1, weight)]
    IN [nodes |-> s1.nodes, graph |-> g4]

get_neighbors(st, item) ==
    IF item \in DOMAIN st.graph THEN st.graph[item] ELSE <<>>

get_edge_weight(st, item1, item2) ==
    IF item1 \in DOMAIN st.graph /\ item2 \in DictKeys(st.graph[item1])
    THEN DictGet(st.graph[item1], item2)
    ELSE 0

has_edge(st, item1, item2) ==
    item1 \in DOMAIN st.graph /\ item2 \in DictKeys(st.graph[item1])

get_node_count(st) == Cardinality(st.nodes)

RECURSIVE SumSizes(_, _)
SumSizes(g, ks) ==
    IF ks = {} THEN 0
    ELSE LET k == CHOOSE x \in ks : TRUE
         IN Len(g[k]) + SumSizes(g, ks \ {k})

get_edge_count(st) == SumSizes(st.graph, DOMAIN st.graph) \div 2

get_degree(st, item) ==
    IF item \in DOMAIN st.graph THEN Len(st.graph[item]) ELSE 0

\* remove_node without the loop that deletes the reverse entries
remove_node_keep_reverse(st, item) ==
    IF item \notin st.nodes THEN st
    ELSE LET g0 == Touch(st.graph, item)
             g2 == [n \in (DOMAIN g0) \ {item} |-> g0[n]]
         IN [nodes |-> st.nodes \ {item}, graph |-> g2]

remove_node_clear_neighbors(st, item) ==
    IF item \notin st.nodes THEN st
    ELSE LET g0 == Touch(st.graph, item)
             nbrs == DictKeys(g0[item])
             g1 == [n \in DOMAIN g0 |->
                      IF n \in nbrs /\ item \in DictKeys(g0[n])
                      THEN <<>>
                      ELSE g0[n]]
             g2 == [n \in (DOMAIN g1) \ {item} |-> g1[n]]
         IN [nodes |-> st.nodes \ {item}, graph |-> g2]

remove_node(st, item) ==
    IF item \notin st.nodes THEN st
    ELSE LET g0 == Touch(st.graph, item)
             nbrs == DictKeys(g0[item])
             g1 == [n \in DOMAIN g0 |->
                      IF n \in nbrs /\ item \in DictKeys(g0[n])
                      THEN DictDel(g0[n], item)
                      ELSE g0[n]]
             g2 == [n \in (DOMAIN g1) \ {item} |-> g1[n]]
         IN [nodes |-> st.nodes \ {item}, graph |-> g2]

get_top_connections(st, item, n) ==
    IF item \notin DOMAIN st.graph THEN <<>>
    ELSE Slice(SortByWeightDesc(st.graph[item]), n)

RECURSIVE SumDegrees(_, _)
SumDegrees(st, ns) ==
    IF ns = {} THEN 0
    ELSE LET n == CHOOSE x \in ns : TRUE
         IN get_degree(st, n) + SumDegrees(st, ns \ {n})

\* the dict returned by get_graph_info as a record; a float is <<num, den>>
get_graph_info(st) ==
    IF st.nodes = {}
    THEN [num_nodes |-> 0, num_edges |-> 0, avg_degree |-> <<0, 1>>,
          max_degree |-> 0, min_degree |-> 0]
    ELSE LET n == Cardinality(st.nodes)
             degrees == {get_degree(st, x) : x \in st.nodes}
         IN [num_nodes |-> n,
             num_edges |-> get_edge_count(st),
             avg_degree |-> <<SumDegrees(st, st.nodes), n>>,
             max_degree |-> CHOOSE d \in degrees : \A e \in degrees : e <= d,
             min_degree |-> CHOOSE d \in degrees : \A e \in degrees : d <= e,
             density |-> IF n > 1 THEN <<2 * get_edge_count(st), n * (n - 1)>>
                         ELSE <<0, 1>>]

\* --------------------------------------------------------- GraphAlgorithms
\* max_depth=None
None == -1

\* find_path's None; a returned path is never empty
NoPath == <<>>

SeqToSet(s) == {s[i] : i \in 1..Len(s)}

\* [(neighbor, tag(neighbor)) for neighbor in neighbors if neighbor not in visited]
RECURSIVE Unvisited(_, _)
Unvisited(nbrs, visited) ==
    IF nbrs = <<>> THEN <<>>
    ELSE IF Head(nbrs)[1] \in visited
         THEN Unvisited(Tail(nbrs), visited)
         ELSE <<Head(nbrs)[1]>> \o Unvisited(Tail(nbrs), visited)

\* bfs without the "already visited" test on the dequeued item
RECURSIVE bfs_loop_no_skip(_, _, _, _, _)
bfs_loop_no_skip(st, max_depth, queue, visited, result) ==
    IF queue = <<>> THEN result
    ELSE LET current_item == Head(queue)[1]
             depth == Head(queue)[2]
             rest == Tail(queue)
         IN IF max_depth # None /\ depth > max_depth
            THEN bfs_loop_no_skip(st, max_depth, rest, visited, result)
            ELSE LET visited2 == visited \cup {current_item}
                     new == Unvisited(get_neighbors(st, current_item), visited2)
                     enq == [i \in 1..Len(new) |-> <<new[i], depth + 1>>]
                 IN bfs_loop_no_skip(st, max_depth, rest \o enq, visited2,
                                     Append(result, current_item))

RECURSIVE bfs_loop(_, _, _, _, _)
bfs_loop(st, max_depth, queue, visited, result) ==
    IF queue = <<>> THEN result
    ELSE LET current_item == Head(queue)[1]
             depth == Head(queue)[2]
             rest == Tail(queue)
         IN IF current_item \in visited
            THEN bfs_loop(st, max_depth, rest, visited, result)
            ELSE IF max_depth # None /\ depth > max_depth
            THEN bfs_loop(st, max_depth, rest, visited, result)
            ELSE LET visited2 == visited \cup {current_item}
                     new == Unvisited(get_neighbors(st, current_item), visited2)
                     enq == [i \in 1..Len(new) |-> <<new[i], depth + 1>>]
                 IN bfs_loop(st, max_depth, rest \o enq, visited2,
                             Append(result, current_item))

bfs_no_check(st, start_item, max_depth) ==
    bfs_loop(st, max_depth, <<<<start_item, 0>>>>, {}, <<>>)

bfs(st, start_item, max_depth) ==
    IF start_item \notin st.nodes THEN <<>>
    ELSE bfs_loop(st, max_depth, <<<<start_item, 0>>>>, {}, <<>>)

\* dfs_recursive and its `for neighbor in neighbors` loop; acc is the
\* closure's [visited, result]
RECURSIVE dfs_recursive(_, _, _, _, _)
RECURSIVE dfs_neighbors(_, _, _, _, _)
dfs_recursive(st, max_depth, item, depth, acc) ==
    IF item \in acc.visited THEN acc
    ELSE IF max_depth # None /\ depth > max_depth THEN acc
    ELSE dfs_neighbors(st, max_depth, get_neighbors(st, item), depth,
                       [visited |-> acc.visited \cup {item},
                        result |-> Append(acc.result, item)])

dfs_neighbors(st, max_depth, nbrs, depth, acc) ==
    IF nbrs = <<>> THEN acc
    ELSE LET neighbor == Head(nbrs)[1]
         IN dfs_neighbors(st, max_depth, Tail(nbrs), depth,
                          IF neighbor \notin acc.visited
                          THEN dfs_recursive(st, max_depth, neighbor, depth + 1, acc)
                          ELSE acc)

dfs(st, start_item, max_depth) ==
    IF start_item \notin st.nodes THEN <<>>
    ELSE dfs_recursive(st, max_depth, start_item, 0,
                       [visited |-> {}, result |-> <<>>]).result

RECURSIVE within_loop_exclusive(_, _, _, _)
within_loop_exclusive(st, distance, queue, visited) ==
    IF queue = <<>> THEN visited
    ELSE LET current_item == Head(queue)[1]
             current_dist == Head(queue)[2]
             rest == Tail(queue)
         IN IF current_item \in visited
            THEN within_loop_exclusive(st, distance, rest, visited)
            ELSE IF current_dist >= distance
            THEN within_loop_exclusive(st, distance, rest, visited)
            ELSE LET visited2 == visited \cup {current_item}
                     new == Unvisited(get_neighbors(st, current_item), visited2)
                     enq == [i \in 1..Len(new) |-> <<new[i], current_dist + 1>>]
                 IN within_loop_exclusive(st, distance, rest \o enq, visited2)

RECURSIVE within_loop(_, _, _, _)
within_loop(st, distance, queue, visited) ==
    IF queue = <<>> THEN visited
    ELSE LET current_item == Head(queue)[1]
             current_dist == Head(queue)[2]
             rest == Tail(queue)
         IN IF current_item \in visited
            THEN within_loop(st, distance, rest, visited)
            ELSE IF current_dist > distance
            THEN within_loop(st, distance, rest, visited)
            ELSE LET visited2 == visited \cup {current_item}
                     new == Unvisited(get_neighbors(st, current_item), visited2)
                     enq == [i \in 1..Len(new) |-> <<new[i], current_dist + 1>>]
                 IN within_loop(st, distance, rest \o enq, visited2)

get_items_within_distance(st, start_item, distance) ==
    IF start_item \notin st.nodes THEN {}
    ELSE within_loop(st, distance, <<<<start_item, 0>>>>, {})

\* find_path that marks neighbours visited when they are enqueued, and
\* still skips visited items when they are dequeued
RECURSIVE find_path_loop_mark_early(_, _, _, _)
find_path_loop_mark_early(st, end_item, queue, visited) ==
    IF queue = <<>> THEN NoPath
    ELSE LET current_item == Head(queue)[1]
             path == Head(queue)[2]
             rest == Tail(queue)
         IN IF current_item = end_item THEN path
            ELSE IF current_item \in visited
            THEN find_path_loop_mark_early(st, end_item, rest, visited)
            ELSE LET visited2 == visited \cup {current_item}
                     new == Unvisited(get_neighbors(st, current_item), visited2)
                     enq == [i \in 1..Len(new) |-> <<new[i], Append(path, new[i])>>]
                 IN find_path_loop_mark_early(st, end_item, rest \o enq,
                                              visited2 \cup SeqToSet(new))

\* find_path that takes the newest queue entry (pop) instead of the oldest
RECURSIVE find_path_loop_lifo(_, _, _, _)
find_path_loop_lifo(st, end_item, queue, visited) ==
    IF queue = <<>> THEN NoPath
    ELSE LET current_item == queue[Len(queue)][1]
             path == queue[Len(queue)][2]
             rest == SubSeq(queue, 1, Len(queue) - 1)
         IN IF current_item = end_item THEN path
            ELSE IF current_item \in visited
            THEN find_path_loop_lifo(st, end_item, rest, visited)
            ELSE LET visited2 == visited \cup {current_item}
                     new == Unvisited(get_neighbors(st, current_item), visited2)
                     enq == [i \in 1..Len(new) |-> <<new[i], Append(path, new[i])>>]
                 IN find_path_loop_lifo(st, end_item, rest \o enq, visited2)

RECURSIVE find_path_loop(_, _, _, _)
find_path_loop(st, end_item, queue, visited) ==
    IF queue = <<>> THEN NoPath
    ELSE LET current_item == Head(queue)[1]
             path == Head(queue)[2]
             rest == Tail(queue)
         IN IF current_item = end_item THEN path
            ELSE IF current_item \in visited
            THEN find_path_loop(st, end_item, rest, visited)
            ELSE LET visited2 == visited \cup {current_item}
                     new == Unvisited(get_neighbors(st, current_item), visited2)
                     enq == [i \in 1..Len(new) |-> <<new[i], Append(path, new[i])>>]
                 IN find_path_loop(st, end_item, rest \o enq, visited2)

find_path(st, start_item, end_item) ==
    IF start_item \notin st.nodes THEN NoPath
    ELSE IF end_item \notin st.nodes THEN NoPath
    ELSE find_path_loop(st, end_item, <<<<start_item, <<start_item>>>>>>, {})

is_connected(st, item1, item2) == find_path(st, item1, item2) # NoPath

\* the orders in which `for node in all_nodes` may enumerate a set
Orders(S) ==
    {o \in [1..Cardinality(S) -> S] : \A i, j \in DOMAIN o : i # j => o[i] # o[j]}

\* find_connected_components without visited.update(component)
RECURSIVE components_loop_no_update(_, _, _, _)
components_loop_no_update(st, order, visited, components) ==
    IF order = <<>> THEN components
    ELSE LET node == Head(order)
         IN IF node \notin visited
            THEN LET component == SeqToSet(bfs(st, node, None))
                 IN components_loop_no_update(st, Tail(order), visited,
                                              Append(components, component))
            ELSE components_loop_no_update(st, Tail(order), visited, components)

RECURSIVE components_loop(_, _, _, _)
components_loop(st, order, visited, components) ==
    IF order = <<>> THEN components
    ELSE LET node == Head(order)
         IN IF node \notin visited
            THEN LET component == SeqToSet(bfs(st, node, None))
                 IN components_loop(st, Tail(order), visited \cup component,
                                    Append(components, component))
            ELSE components_loop(st, Tail(order), visited, components)

find_connected_components(st, order) == components_loop(st, order, {}, <<>>)

\* ------------------------------------------------------ ProductRecommender
\* the internal n of recommend_for_basket's calls to recommend_for_item
BasketCap == 20

recommend_for_item_unsorted(st, item, n, exclude_items) ==
    IF item \notin st.nodes THEN <<>>
    ELSE LET keep(e) == e[1] \notin exclude_items
         IN Slice(SelectSeq(get_neighbors(st, item), keep), n)

\* exclude_items=None is the empty set
recommend_for_item(st, item, n, exclude_items) ==
    IF item \notin st.nodes THEN <<>>
    ELSE LET keep(e) == e[1] \notin exclude_items
         IN Slice(SortByWeightDesc(SelectSeq(get_neighbors(st, item), keep)), n)

\* all_recommendations[rec_item] += weight, starting from 0
RECURSIVE add_scores(_, _)
add_scores(all_recommendations, item_recs) ==
    IF item_recs = <<>> THEN all_recommendations
    ELSE add_scores(Bump(IF Head(item_recs)[1] \in DictKeys(all_recommendations)
                         THEN all_recommendations
                         ELSE DictSet(all_recommendations, Head(item_recs)[1], 0),
                         Head(item_recs)[1], Head(item_recs)[2]),
                    Tail(item_recs))

RECURSIVE basket_loop_no_exclude(_, _, _, _)
basket_loop_no_exclude(st, basket, rest, all_recommendations) ==
    IF rest = <<>> THEN all_recommendations
    ELSE LET item == Head(rest)
         IN basket_loop_no_exclude(st, basket, Tail(rest),
               IF item \in st.nodes
               THEN add_scores(all_recommendations,
                               recommend_for_item(st, item, BasketCap, {}))
               ELSE all_recommendations)

RECURSIVE basket_loop(_, _, _, _)
basket_loop(st, basket, rest, all_recommendations) ==
    IF rest = <<>> THEN all_recommendations
    ELSE LET item == Head(rest)
         IN basket_loop(st, basket, Tail(rest),
               IF item \in st.nodes
               THEN add_scores(all_recommendations,
                               recommend_for_item(st, item, BasketCap,
                                                  SeqToSet(basket)))
               ELSE all_recommendations)

recommend_for_basket(st, basket, n) ==
    IF basket = <<>> THEN <<>>
    ELSE Slice(SortByWeightDesc(basket_loop(st, basket, basket, <<>>)), n)

\* sorted(similarities.items(), key=similarity, reverse=True): stable; a
\* similarity is the fraction <<intersection, union>>
RECURSIVE InsertBySimilarity(_, _)
InsertBySimilarity(s, e) ==
    IF s = <<>> THEN <<e>>
    ELSE IF e[2][1] * Head(s)[2][2] > Head(s)[2][1] * e[2][2] THEN <<e>> \o s
    ELSE <<Head(s)>> \o InsertBySimilarity(Tail(s), e)

RECURSIVE SortBySimilarityDesc(_)
SortBySimilarityDesc(s) ==
    IF s = <<>> THEN <<>>
    ELSE InsertBySimilarity(SortBySimilarityDesc(SubSeq(s, 1, Len(s) - 1)),
                            s[Len(s)])

RECURSIVE similar_loop_with_self(_, _, _, _, _)
similar_loop_with_self(st, item, target_neighbors, order, similarities) ==
    IF order = <<>> THEN similarities
    ELSE LET other_item == Head(order)
             other_neighbors == DictKeys(get_neighbors(st, other_item))
             intersection == Cardinality(target_neighbors \cap other_neighbors)
             union == Cardinality(target_neighbors \cup other_neighbors)
         IN similar_loop_with_self(st, item, target_neighbors, Tail(order),
               IF other_neighbors = {} THEN similarities
               ELSE IF union > 0
               THEN DictSet(similarities, other_item, <<intersection, union>>)
               ELSE similarities)

\* order is the order in which `for other_item in get_all_nodes()` runs
RECURSIVE similar_loop(_, _, _, _, _)
similar_loop(st, item, target_neighbors, order, similarities) ==
    IF order = <<>> THEN similarities
    ELSE LET other_item == Head(order)
             other_neighbors == DictKeys(get_neighbors(st, other_item))
             intersection == Cardinality(target_neighbors \cap other_neighbors)
             union == Cardinality(target_neighbors \cup other_neighbors)
         IN similar_loop(st, item, target_neighbors, Tail(order),
               IF other_item = item THEN similarities
               ELSE IF other_neighbors = {} THEN similarities
               ELSE IF union > 0
               THEN DictSet(similarities, other_item, <<intersection, union>>)
               ELSE similarities)

get_similar_items(st, item, n, order) ==
    IF item \notin st.nodes THEN <<>>
    ELSE LET target_neighbors == DictKeys(get_neighbors(st, item))
         IN IF target_neighbors = {} THEN <<>>
            ELSE Slice(SortBySimilarityDesc(
                           similar_loop(st, item, target_neighbors, order, <<>>)),
                       n)

\* ---------------------------------------------------- FrequentItemsetMiner
\* a miner is a record [transactions, min_support]; a fraction is <<num, den>>
Rank(item) == CHOOSE i \in 1..Len(ItemOrder) : ItemOrder[i] = item

num_transactions(m) == Len(m.transactions)

\* int(min_support * num_transactions), raised to 1
min_support_count(m) ==
    LET c == (m.min_support * num_transactions(m)) \div SupportDen
    IN IF c < 1 THEN 1 ELSE c

\* sorted(transaction)
RECURSIVE InsertSorted(_, _)
InsertSorted(s, x) ==
    IF s = <<>> THEN <<x>>
    ELSE IF Rank(x) < Rank(Head(s)) THEN <<x>> \o s
    ELSE <<Head(s)>> \o InsertSorted(Tail(s), x)

RECURSIVE Sorted(_)
Sorted(t) ==
    IF t = <<>> THEN <<>>
    ELSE InsertSorted(Sorted(SubSeq(t, 1, Len(t) - 1)), t[Len(t)])

\* itertools.combinations(s, k), in the order it yields them
RECURSIVE Combinations(_, _)
Combinations(s, k) ==
    IF k = 0 THEN << <<>> >>
    ELSE IF Len(s) < k THEN <<>>
    ELSE LET with == Combinations(Tail(s), k - 1)
         IN [i \in 1..Len(with) |-> <<Head(s)>> \o with[i]]
            \o Combinations(Tail(s), k)

\* counts[key] += 1 for each key of a sequence, on a defaultdict(int)
RECURSIVE CountKeys(_, _)
CountKeys(d, keys) ==
    IF keys = <<>> THEN d
    ELSE CountKeys(Bump(d, Head(keys), 1), Tail(keys))

\* {key: count for key, count in d.items() if count >= min_support_count}
FilterCount(d, minimum) ==
    LET keep(e) == e[2] >= minimum IN SelectSeq(d, keep)

\* list.sort(key=count, reverse=True): stable
RECURSIVE InsertByCount(_, _)
InsertByCount(s, e) ==
    IF s = <<>> THEN <<e>>
    ELSE IF e[2] > Head(s)[2] THEN <<e>> \o s
    ELSE <<Head(s)>> \o InsertByCount(Tail(s), e)

RECURSIVE SortByCountDesc(_)
SortByCountDesc(s) ==
    IF s = <<>> THEN <<>>
    ELSE InsertByCount(SortByCountDesc(SubSeq(s, 1, Len(s) - 1)), s[Len(s)])

RECURSIVE count_items(_, _)
count_items(d, txs) ==
    IF txs = <<>> THEN d
    ELSE LET t == Head(txs)
         IN count_items(CountKeys(d, [i \in 1..Len(t) |-> {t[i]}]), Tail(txs))

find_frequent_1_itemsets(m) ==
    FilterCount(count_items(<<>>, m.transactions), min_support_count(m))

RECURSIVE count_pairs_longer(_, _)
count_pairs_longer(d, txs) ==
    IF txs = <<>> THEN d
    ELSE LET t == Head(txs)
         IN count_pairs_longer(IF Len(t) > 2
                               THEN CountKeys(d, Combinations(Sorted(t), 2))
                               ELSE d,
                               Tail(txs))

RECURSIVE count_pairs(_, _)
count_pairs(d, txs) ==
    IF txs = <<>> THEN d
    ELSE LET t == Head(txs)
         IN count_pairs(IF Len(t) >= 2
                        THEN CountKeys(d, Combinations(Sorted(t), 2))
                        ELSE d,
                        Tail(txs))

find_frequent_pairs(m) ==
    SortByCountDesc(FilterCount(count_pairs(<<>>, m.transactions),
                                min_support_count(m)))

RECURSIVE count_itemsets(_, _, _)
count_itemsets(d, txs, k) ==
    IF txs = <<>> THEN d
    ELSE LET t == Head(txs)
             cs == Combinations(Sorted(t), k)
         IN count_itemsets(IF Len(t) >= k
                           THEN CountKeys(d, [i \in 1..Len(cs) |-> SeqToSet(cs[i])])
                           ELSE d,
                           Tail(txs), k)

find_frequent_k_itemsets(m, k) ==
    IF k < 1 THEN <<>>
    ELSE FilterCount(count_itemsets(<<>>, m.transactions, k),
                     min_support_count(m))

RECURSIVE apriori_loop(_, _, _, _)
apriori_loop(m, k, max_k, all_frequent_itemsets) ==
    IF k > max_k THEN all_frequent_itemsets
    ELSE LET frequent_k == find_frequent_k_itemsets(m, k)
         IN IF frequent_k = <<>> THEN all_frequent_itemsets
            ELSE apriori_loop(m, k + 1, max_k,
                              DictSet(all_frequent_itemsets, k, frequent_k))

\* the result dict {k: {itemset: count}} as <<k, dict>> pairs
apriori(m, max_k) == apriori_loop(m, 1, max_k, <<>>)

\* frequent_1_items.get(frozenset([item]), 0)
GetCount(d, item) == IF {item} \in DictKeys(d) THEN DictGet(d, {item}) ELSE 0

\* one direction of a pair: the rules after it, or the ZeroDivisionError
\* raised when the lift's divisor (ante/N) * (cons/N) is 0.0
rule_direction(m, acc, ante, cons, pair_count, ante_count, cons_count, min_confidence) ==
    IF acc.fault THEN acc
    ELSE IF ante_count > 0
    THEN IF pair_count * ConfDen >= min_confidence * ante_count
         THEN IF ante_count * cons_count = 0
              THEN [fault |-> TRUE, rules |-> acc.rules]
              ELSE [fault |-> FALSE,
                    rules |-> Append(acc.rules,
                       [antecedent |-> ante,
                        consequent |-> cons,
                        support |-> <<pair_count, num_transactions(m)>>,
                        confidence |-> <<pair_count, ante_count>>,
                        lift |-> <<pair_count * num_transactions(m),
                                   ante_count * cons_count>>])]
         ELSE acc
    ELSE acc

RECURSIVE rules_loop(_, _, _, _, _)
rules_loop(m, pairs, frequent_1_items, min_confidence, acc) ==
    IF pairs = <<>> \/ acc.fault THEN acc
    ELSE LET item1 == Head(pairs)[1][1]
             item2 == Head(pairs)[1][2]
             pair_count == Head(pairs)[2]
             item1_count == GetCount(frequent_1_items, item1)
             item2_count == GetCount(frequent_1_items, item2)
             r1 == rule_direction(m, acc, item1, item2, pair_count,
                                  item1_count, item2_count, min_confidence)
             r2 == rule_direction(m, r1, item2, item1, pair_count,
                                  item2_count, item1_count, min_confidence)
         IN rules_loop(m, Tail(pairs), frequent_1_items, min_confidence, r2)

\* rules.sort(key=confidence, reverse=True): stable
RECURSIVE InsertByConfidence(_, _)
InsertByConfidence(s, r) ==
    IF s = <<>> THEN <<r>>
    ELSE IF r.confidence[1] * Head(s).confidence[2]
              > Head(s).confidence[1] * r.confidence[2]
         THEN <<r>> \o s
         ELSE <<Head(s)>> \o InsertByConfidence(Tail(s), r)

RECURSIVE SortByConfidenceDesc(_)
SortByConfidenceDesc(s) ==
    IF s = <<>> THEN <<>>
    ELSE InsertByConfidence(SortByConfidenceDesc(SubSeq(s, 1, Len(s) - 1)),
                            s[Len(s)])

\* the result is [fault, rules]: fault is TRUE when ZeroDivisionError leaves
\* the call, and rules is then not returned
get_association_rules(m, min_confidence) ==
    LET r == rules_loop(m, find_frequent_pairs(m), find_frequent_1_itemsets(m),
                        min_confidence, [fault |-> FALSE, rules |-> <<>>])
    IN IF r.fault THEN [fault |-> TRUE, rules |-> <<>>]
       ELSE [fault |-> FALSE, rules |-> SortByConfidenceDesc(r.rules)]

\* ---------------------------------------- ProductRecommender: bundles
\* sum(conn[1] for conn in top_connections)
RECURSIVE SumScores(_)
SumScores(conns) ==
    IF conns = <<>> THEN 0 ELSE Head(conns)[2] + SumScores(Tail(conns))

\* the `for node in get_all_nodes()` loop, order being the order it runs in;
\* bundles is the list of (bundle_items, score)
RECURSIVE bundles_loop(_, _, _, _, _)
bundles_loop(st, min_bundle_size, max_bundle_size, order, bundles) ==
    IF order = <<>> THEN bundles
    ELSE LET node == Head(order)
             top_connections == get_top_connections(st, node, max_bundle_size - 1)
             taken == Slice(top_connections, max_bundle_size - 1)
             bundle_items == <<node>> \o [i \in 1..Len(taken) |-> taken[i][1]]
         IN bundles_loop(st, min_bundle_size, max_bundle_size, Tail(order),
               IF Len(top_connections) >= min_bundle_size - 1
               THEN Append(bundles, <<Sorted(bundle_items), SumScores(taken)>>)
               ELSE bundles)

\* unique_bundles keeps the highest score of each bundle
RECURSIVE unique_loop(_, _)
unique_loop(bundles, unique_bundles) ==
    IF bundles = <<>> THEN unique_bundles
    ELSE LET bundle_key == Head(bundles)[1]
             score == Head(bundles)[2]
         IN unique_loop(Tail(bundles),
               IF bundle_key \notin DictKeys(unique_bundles)
                  \/ DictGet(unique_bundles, bundle_key) < score
               THEN DictSet(unique_bundles, bundle_key, score)
               ELSE unique_bundles)

find_product_bundles(st, min_bundle_size, max_bundle_size, top_n, order) ==
    Slice(SortByWeightDesc(
              unique_loop(bundles_loop(st, min_bundle_size, max_bundle_size,
                                       order, <<>>),
                          <<>>)),
          top_n)

\* ------------------------------------------- what a query leaves behind
\* The graph after a lookup.  self.graph is a defaultdict: reading
\* self.graph[item] creates the key, so each lookup is followed through the
\* keys it reads and the tests that guard the reads.
Read(st, item) == [nodes |-> st.nodes, graph |-> Touch(st.graph, item)]

RECURSIVE ReadEach(_, _)
ReadEach(st, items) ==
    IF items = {} THEN st
    ELSE LET x == CHOOSE y \in items : TRUE
         IN ReadEach(Read(st, x), items \ {x})

get_neighbors_after_unguarded(st, item) == Read(st, item)

get_neighbors_after(st, item) ==
    IF item \in DOMAIN st.graph THEN Read(st, item) ELSE st

get_edge_weight_after(st, item1, item2) ==
    IF item1 \in DOMAIN st.graph THEN Read(st, item1) ELSE st

get_degree_after(st, item) ==
    IF item \in DOMAIN st.graph THEN Read(st, item) ELSE st

get_top_connections_after(st, item) ==
    IF item \notin DOMAIN st.graph THEN st ELSE Read(st, item)

has_edge_after(st, item1, item2) ==
    IF item1 \in DOMAIN st.graph THEN Read(st, item1) ELSE st

\* len(self.graph[node]) for node in self.nodes
get_edge_count_after(st) == ReadEach(st, st.nodes)

get_graph_info_after(st) ==
    IF st.nodes = {} THEN st
    ELSE LET s1 == ReadEach(st, {x \in st.nodes : x \in DOMAIN st.graph})
         IN get_edge_count_after(s1)

\* get_neighbors(item) for each item of a set, as the traversals and the
\* recommender call it
RECURSIVE neighbors_after(_, _)
neighbors_after(st, items) ==
    IF items = {} THEN st
    ELSE LET x == CHOOSE y \in items : TRUE
         IN neighbors_after(get_neighbors_after(st, x), items \ {x})

\* bfs, dfs and get_items_within_distance ask for the neighbors of each item
\* they visit
bfs_after(st, start_item, max_depth) ==
    neighbors_after(st, SeqToSet(bfs(st, start_item, max_depth)))

dfs_after(st, start_item, max_depth) ==
    neighbors_after(st, SeqToSet(dfs(st, start_item, max_depth)))

get_items_within_distance_after(st, start_item, distance) ==
    neighbors_after(st, get_items_within_distance(st, start_item, distance))

\* find_path asks for the neighbors of items it dequeues: items reached
\* from start
find_path_after(st, start_item, end_item) ==
    IF start_item \notin st.nodes \/ end_item \notin st.nodes THEN st
    ELSE neighbors_after(st, SeqToSet(bfs(st, start_item, None)))

\* one bfs from each node not yet in a component
find_connected_components_after(st) == neighbors_after(st, st.nodes)

\* neighbors of item, then has_edge on pairs of them
get_clustering_coefficient_after(st, item) ==
    LET s1 == get_neighbors_after(st, item)
        neighbors == DictKeys(get_neighbors(st, item))
    IN IF Cardinality(neighbors) < 2 THEN s1
       ELSE ReadEach(s1, {x \in neighbors : x \in DOMAIN s1.graph})

recommend_for_item_after(st, item) ==
    IF item \notin st.nodes THEN st ELSE get_neighbors_after(st, item)

recommend_for_basket_after(st, basket) ==
    neighbors_after(st, SeqToSet(basket) \cap st.nodes)

get_similar_items_after(st, item) ==
    IF item \notin st.nodes THEN st
    ELSE LET s1 == get_neighbors_after(st, item)
         IN IF get_neighbors(st, item) = <<>> THEN s1
            ELSE neighbors_after(s1, st.nodes \ {item})

\* get_top_connections(node) for each node
RECURSIVE find_product_bundles_after(_, _)
find_product_bundles_after(st, items) ==
    IF items = {} THEN st
    ELSE LET x == CHOOSE y \in items : TRUE
         IN find_product_bundles_after(get_top_connections_after(st, x),
                                       items \ {x})

\* The transactions after a miner method: the counting loops read each
\* transaction and sort a copy of it with sorted()
transactions_after_sort_in_place(m) ==
    [i \in 1..Len(m.transactions) |-> Sorted(m.transactions[i])]

transactions_after(m) ==
    [i \in 1..Len(m.transactions) |-> m.transactions[i]]

\* ------------------------------------- further methods of the three classes
find_strongest_connections(st, item, n) == get_top_connections(st, item, n)

\* edges between the neighbors of item over the pairs of neighbors, as a
\* fraction; 0.0 with fewer than two neighbors
get_clustering_coefficient(st, item) ==
    LET neighbors == get_neighbors(st, item)
        k == Len(neighbors)
        edges_between_neighbors ==
            Cardinality({pq \in (1..k) \X (1..k) :
                            /\ pq[1] < pq[2]
                            /\ has_edge(st, neighbors[pq[1]][1], neighbors[pq[2]][1])})
    IN IF k < 2 THEN <<0, 1>>
       ELSE <<2 * edges_between_neighbors, k * (k - 1)>>

get_complementary_items(st, item, n) == recommend_for_item(st, item, n, {})

get_top_n_pairs(m, n) == Slice(find_frequent_pairs(m), n)

\* ------------------------------------------------------------------ state
G == [nodes |-> nodes, graph |-> graph]

NoCall == [op |-> "none", args |-> <<>>, pre |-> 0, res |-> 0]

Called(op, args, pre, res) == [op |-> op, args |-> args, pre |-> pre, res |-> res]

RECURSIVE SumRow(_)
SumRow(row) == IF row = <<>> THEN 0 ELSE Head(row)[2] + SumRow(Tail(row))

RECURSIVE SumEntries(_, _)
SumEntries(g, ks) ==
    IF ks = {} THEN 0
    ELSE LET k == CHOOSE x \in ks : TRUE
         IN SumRow(g[k]) + SumEntries(g, ks \ {k})

WithinBound(st) == SumEntries(st.graph, DOMAIN st.graph) <= 2 * MaxTotal

Init ==
    /\ nodes = {}
    /\ graph = <<>>
    /\ transactions = <<>>
    /\ min_support = 0
    /\ call = NoCall

Mutate(s, c) ==
    /\ nodes' = s.nodes
    /\ graph' = s.graph
    /\ call' = c
    /\ UNCHANGED <<transactions, min_support>>

Query(c) ==
    /\ call' = c
    /\ UNCHANGED <<nodes, graph, transactions, min_support>>

AddNode(item) ==
    Mutate(add_node(G, item), Called("add_node", <<item>>, 0, 0))

\* pre records get_edge_weight(item1, item2) before the call
AddEdge(item1, item2, weight) ==
    LET s == add_edge(G, item1, item2, weight)
    IN /\ WithinBound(s)
       /\ Mutate(s, Called("add_edge", <<item1, item2, weight>>,
                           get_edge_weight(G, item1, item2), 0))

\* pre records get_degree(item) before the call
RemoveNode(item) ==
    Mutate(remove_node(G, item),
           Called("remove_node", <<item>>, get_degree(G, item), 0))

GetEdgeWeight(item1, item2) ==
    Query(Called("get_edge_weight", <<item1, item2>>, 0,
                 get_edge_weight(G, item1, item2)))

HasEdge(item1, item2) ==
    Query(Called("has_edge", <<item1, item2>>, 0, has_edge(G, item1, item2)))

GetEdgeCount ==
    Query(Called("get_edge_count", <<>>, 0, get_edge_count(G)))

FindPath(start_item, end_item) ==
    Query(Called("find_path", <<start_item, end_item>>, 0,
                 find_path(G, start_item, end_item)))

IsConnected(item1, item2) ==
    Query(Called("is_connected", <<item1, item2>>, 0,
                 is_connected(G, item1, item2)))

FindConnectedComponents ==
    \E order \in Orders(nodes) :
        Query(Called("find_connected_components", <<>>, 0,
                     find_connected_components(G, order)))

Next ==
    \/ \E item \in Items : AddNode(item)
    \/ \E item1, item2 \in Items : \E weight \in 1..MaxAdd :
           AddEdge(item1, item2, weight)
    \/ \E item \in Items : RemoveNode(item)
    \/ \E item1, item2 \in Items : GetEdgeWeight(item1, item2)
    \/ \E item1, item2 \in Items : HasEdge(item1, item2)
    \/ GetEdgeCount
    \/ \E item1, item2 \in Items : FindPath(item1, item2)
    \/ \E item1, item2 \in Items : IsConnected(item1, item2)
    \/ FindConnectedComponents

Spec == Init /\ [][Next]_vars

\* ------------------------------------------ graph with summary and lookups
GetGraphInfo ==
    Query(Called("get_graph_info", <<>>, 0, get_graph_info(G)))

\* --------------------------------------------- graph with traversal calls
Depths == {None} \cup 0..MaxDepth

Bfs(start_item, max_depth) ==
    Query(Called("bfs", <<start_item, max_depth>>, 0,
                 bfs(G, start_item, max_depth)))

Dfs(start_item, max_depth) ==
    Query(Called("dfs", <<start_item, max_depth>>, 0,
                 dfs(G, start_item, max_depth)))

GetItemsWithinDistance(start_item, distance) ==
    Query(Called("get_items_within_distance", <<start_item, distance>>, 0,
                 get_items_within_distance(G, start_item, distance)))

Mutators ==
    \/ \E item \in Items : AddNode(item)
    \/ \E item1, item2 \in Items : \E weight \in 1..MaxAdd :
           AddEdge(item1, item2, weight)
    \/ \E item \in Items : RemoveNode(item)

NextTraverse ==
    \/ Mutators
    \/ \E start_item \in Items : \E max_depth \in Depths : Bfs(start_item, max_depth)
    \/ \E start_item \in Items : \E max_depth \in Depths : Dfs(start_item, max_depth)
    \/ \E start_item \in Items : \E distance \in 0..MaxDepth :
           GetItemsWithinDistance(start_item, distance)

SpecTraverse == Init /\ [][NextTraverse]_vars

\* ------------------------------------- graph with lookups and similarity
GetNeighbors(item) ==
    Query(Called("get_neighbors", <<item>>, 0, get_neighbors(G, item)))

GetDegree(item) ==
    Query(Called("get_degree", <<item>>, 0, get_degree(G, item)))

GetTopConnections(item, n) ==
    Query(Called("get_top_connections", <<item, n>>, 0,
                 get_top_connections(G, item, n)))

RecommendForItem(item, n, exclude_items) ==
    Query(Called("recommend_for_item", <<item, n, exclude_items>>, 0,
                 recommend_for_item(G, item, n, exclude_items)))

GetSimilarItems(item, n) ==
    \E order \in Orders(nodes) :
        Query(Called("get_similar_items", <<item, n>>, 0,
                     get_similar_items(G, item, n, order)))

QueryOps ==
    {"get_graph_info", "get_neighbors", "get_edge_weight", "get_degree",
     "get_top_connections", "has_edge", "bfs", "dfs", "find_path",
     "get_items_within_distance", "recommend_for_item", "recommend_for_basket",
     "get_similar_items", "find_product_bundles"}

\* the log holds one call: the entry of a query is dropped before the next
\* call is logged.  Forget changes nothing of the program, so every query
\* remains possible in every state of the graph.
Idle == call.op \notin QueryOps

Forget ==
    /\ ~Idle
    /\ call' = NoCall
    /\ UNCHANGED <<nodes, graph, transactions, min_support>>

NextLookup ==
    \/ \E item \in Items : Idle /\ AddNode(item)
    \/ \E item1, item2 \in Items : \E weight \in 1..MaxAdd :
           Idle /\ AddEdge(item1, item2, weight)
    \/ \E item \in Items : Idle /\ RemoveNode(item)
    \/ Idle /\ GetGraphInfo
    \/ \E item \in Items : Idle /\ GetNeighbors(item)
    \/ \E item1, item2 \in Items : Idle /\ GetEdgeWeight(item1, item2)
    \/ \E item \in Items : Idle /\ GetDegree(item)
    \/ \E item \in Items : \E n \in 0..MaxN : Idle /\ GetTopConnections(item, n)
    \/ \E item1, item2 \in Items : Idle /\ HasEdge(item1, item2)
    \/ \E item \in Items : \E max_depth \in Depths : Idle /\ Bfs(item, max_depth)
    \/ \E item \in Items : \E max_depth \in Depths : Idle /\ Dfs(item, max_depth)
    \/ \E item1, item2 \in Items : Idle /\ FindPath(item1, item2)
    \/ \E item \in Items : \E distance \in 0..MaxDepth :
           Idle /\ GetItemsWithinDistance(item, distance)
    \/ \E item \in Items : \E n \in 0..MaxN : \E exclude_items \in SUBSET Items :
           Idle /\ RecommendForItem(item, n, exclude_items)
    \/ \E item \in Items : \E n \in 0..MaxN : Idle /\ GetSimilarItems(item, n)
    \/ Forget

SpecLookup == Init /\ [][NextLookup]_vars

\* --------------------------------------- traversal of a graph of four items
DeepItems == Items \cup {"d"}

AddEdgeDeep(item1, item2, weight) ==
    LET s == add_edge(G, item1, item2, weight)
    IN /\ SumEntries(s.graph, DOMAIN s.graph) <= 2 * MaxDeepEdges
       /\ Mutate(s, Called("add_edge", <<item1, item2, weight>>,
                           get_edge_weight(G, item1, item2), 0))

NextDeep ==
    \/ \E item1, item2 \in DeepItems : Idle /\ AddEdgeDeep(item1, item2, 1)
    \/ \E item \in DeepItems : \E max_depth \in Depths : Idle /\ Bfs(item, max_depth)
    \/ \E item \in DeepItems : \E max_depth \in Depths : Idle /\ Dfs(item, max_depth)
    \/ Forget

SpecDeep == Init /\ [][NextDeep]_vars

\* ------------------------------------------ graph with recommendation calls
Baskets == UNION {[1..k -> Items] : k \in 0..MaxBasket}

RecommendForBasket(basket, n) ==
    Query(Called("recommend_for_basket", <<basket, n>>, 0,
                 recommend_for_basket(G, basket, n)))

NextRecommend ==
    \/ \E item \in Items : Idle /\ AddNode(item)
    \/ \E item1, item2 \in Items : \E weight \in 1..MaxAdd :
           Idle /\ AddEdge(item1, item2, weight)
    \/ \E item \in Items : Idle /\ RemoveNode(item)
    \/ \E item \in Items : \E n \in 0..MaxN : \E exclude_items \in SUBSET Items :
           Idle /\ RecommendForItem(item, n, exclude_items)
    \/ \E basket \in Baskets : \E n \in 0..MaxN :
           Idle /\ RecommendForBasket(basket, n)
    \/ Forget

SpecRecommend == Init /\ [][NextRecommend]_vars

\* ---------------------------------------------- graph with bundle calls
FindProductBundles(min_bundle_size, max_bundle_size, top_n) ==
    \E order \in Orders(nodes) :
        Query(Called("find_product_bundles",
                     <<min_bundle_size, max_bundle_size, top_n>>, 0,
                     find_product_bundles(G, min_bundle_size, max_bundle_size,
                                          top_n, order)))

NextBundles ==
    \/ \E item \in Items : Idle /\ AddNode(item)
    \/ \E item1, item2 \in Items : \E weight \in 1..MaxAdd :
           Idle /\ AddEdge(item1, item2, weight)
    \/ \E item \in Items : Idle /\ RemoveNode(item)
    \/ \E max_bundle_size \in 1..MaxBundle :
       \E min_bundle_size \in 1..max_bundle_size : \E top_n \in 0..MaxN :
           Idle /\ FindProductBundles(min_bundle_size, max_bundle_size, top_n)
    \/ Forget

SpecBundles == Init /\ [][NextBundles]_vars

\* ----------------------------------------------- miner over a fixed input
M == [transactions |-> transactions, min_support |-> min_support]

RECURSIVE TotalLen(_)
TotalLen(txs) == IF txs = <<>> THEN 0 ELSE Len(Head(txs)) + TotalLen(Tail(txs))

Transaction == UNION {[1..n -> Items] : n \in 0..MaxItemsTotal}

\* the lists of at most n transactions that hold at most budget items
RECURSIVE ListsWithin(_, _)
ListsWithin(n, budget) ==
    IF n = 0 THEN {<<>>}
    ELSE {<<>>} \cup
         UNION {{<<t>> \o rest : rest \in ListsWithin(n - 1, budget - Len(t))} :
                   t \in {u \in Transaction : Len(u) <= budget}}

TransactionLists == ListsWithin(MaxTx, MaxItemsTotal)

InitMiner ==
    /\ nodes = {}
    /\ graph = <<>>
    /\ transactions \in TransactionLists
    /\ min_support \in 0..SupportDen
    /\ call = NoCall

MinerQuery(c) ==
    /\ call' = c
    /\ UNCHANGED <<nodes, graph, transactions, min_support>>

FindFrequent1Itemsets ==
    MinerQuery(Called("find_frequent_1_itemsets", <<>>, 0,
                      find_frequent_1_itemsets(M)))

FindFrequentPairs ==
    MinerQuery(Called("find_frequent_pairs", <<>>, 0, find_frequent_pairs(M)))

FindFrequentKItemsets(k) ==
    MinerQuery(Called("find_frequent_k_itemsets", <<k>>, 0,
                      find_frequent_k_itemsets(M, k)))

GetAssociationRules(min_confidence) ==
    MinerQuery(Called("get_association_rules", <<min_confidence>>, 0,
                      get_association_rules(M, min_confidence)))

Apriori(max_k) ==
    MinerQuery(Called("apriori", <<max_k>>, 0, apriori(M, max_k)))

NextMiner ==
    \/ FindFrequent1Itemsets
    \/ FindFrequentPairs
    \/ \E k \in 0..MaxK : FindFrequentKItemsets(k)
    \/ \E min_confidence \in 0..ConfDen : GetAssociationRules(min_confidence)
    \/ \E max_k \in 0..MaxK : Apriori(max_k)

SpecMiner == InitMiner /\ [][NextMiner]_vars

\* ------------------------------------------------------- TransactionLoader
\* a loader is a record [transactions, graph], graph a ProductGraph state
TopItems == 10

\* the rows of the file as lists of stripped, non-blank cells: a row is kept
\* when it has a cell (no item of Items is one of the header words)
load_from_csv(rows) ==
    LET kept(items) == items # <<>> IN SelectSeq(rows, kept)

\* add_edge(item1, item2, weight=1) for each pair of positions i < j
RECURSIVE add_pairs(_, _)
add_pairs(st, pairs) ==
    IF pairs = <<>> THEN st
    ELSE add_pairs(add_edge(st, Head(pairs)[1], Head(pairs)[2], 1), Tail(pairs))

RECURSIVE build_loop(_, _)
build_loop(st, txs) ==
    IF txs = <<>> THEN st
    ELSE build_loop(add_pairs(st, Combinations(Head(txs), 2)), Tail(txs))

build_graph_from_transactions(l) ==
    IF l.transactions = <<>> THEN l.graph
    ELSE build_loop(l.graph, l.transactions)

RECURSIVE all_items(_)
all_items(txs) ==
    IF txs = <<>> THEN {} ELSE SeqToSet(Head(txs)) \cup all_items(Tail(txs))

RECURSIVE item_counts(_, _)
item_counts(d, txs) ==
    IF txs = <<>> THEN d
    ELSE item_counts(CountKeys(d, Head(txs)), Tail(txs))

get_transaction_stats(l) ==
    IF l.transactions = <<>> THEN [error |-> "No transactions loaded"]
    ELSE LET txs == l.transactions
             transaction_sizes == {Len(txs[i]) : i \in 1..Len(txs)}
         IN [total_transactions |-> Len(txs),
             unique_items |-> Cardinality(all_items(txs)),
             avg_transaction_size |-> <<TotalLen(txs), Len(txs)>>,
             min_transaction_size |->
                 CHOOSE x \in transaction_sizes : \A y \in transaction_sizes : x <= y,
             max_transaction_size |->
                 CHOOSE x \in transaction_sizes : \A y \in transaction_sizes : y <= x,
             most_common_items |->
                 Slice(SortByWeightDesc(item_counts(<<>>, txs)), TopItems)]

\* ------------------------------------------ miner asked for pairs only
InitPairs ==
    /\ nodes = {}
    /\ graph = <<>>
    /\ transactions \in ListsWithin(MaxFrameTx, MaxFrameItems)
    /\ min_support \in 0..SupportDen
    /\ call = NoCall

NextPairs ==
    \/ FindFrequentPairs
    \/ \E k \in 0..MaxK : FindFrequentKItemsets(k)

SpecPairs == InitPairs /\ [][NextPairs]_vars

\* ---------------------------------------------- loader over a fixed input
L == [transactions |-> transactions, graph |-> G]

\* a fresh loader whose transactions were read from the rows of a file
InitLoader ==
    /\ nodes = {}
    /\ graph = <<>>
    /\ transactions \in {load_from_csv(rows) : rows \in TransactionLists}
    /\ min_support = 0
    /\ call = NoCall

\* pre records whether the loader's graph was still empty before the call
BuildGraphFromTransactions ==
    LET s == build_graph_from_transactions(L)
    IN /\ SumEntries(s.graph, DOMAIN s.graph) <= 2 * MaxPairs
       /\ Mutate(s, Called("build_graph_from_transactions", <<>>,
                           G = EmptyGraph, s))

GetTransactionStats ==
    Query(Called("get_transaction_stats", <<>>, 0, get_transaction_stats(L)))

NextLoader ==
    \/ BuildGraphFromTransactions
    \/ GetTransactionStats

SpecLoader == InitLoader /\ [][NextLoader]_vars

\* ------------------------------- loader whose graph and list are queried
\* the miner is built on the loader's transaction list, the algorithms and
\* the recommender on its graph
FrameOps ==
    {"get_neighbors", "get_edge_weight", "get_degree", "get_top_connections",
     "has_edge", "get_graph_info", "get_edge_count", "bfs", "dfs", "find_path",
     "is_connected", "find_connected_components", "get_items_within_distance",
     "find_strongest_connections", "get_clustering_coefficient",
     "recommend_for_item", "recommend_for_basket", "find_product_bundles",
     "get_similar_items", "get_complementary_items",
     "find_frequent_1_itemsets", "find_frequent_pairs",
     "find_frequent_k_itemsets", "apriori", "get_top_n_pairs",
     "get_association_rules"}

InitFrame ==
    /\ nodes = {}
    /\ graph = <<>>
    /\ transactions \in {load_from_csv(rows) :
                            rows \in ListsWithin(MaxFrameTx, MaxFrameItems)}
    /\ min_support = 0
    /\ call = NoCall

\* a method of the graph, the algorithms or the recommender: the graph is
\* what the method leaves behind
GraphCall(op, args, res, after) ==
    /\ call.op \notin FrameOps
    /\ call' = Called(op, args, 0, res)
    /\ nodes' = after.nodes
    /\ graph' = after.graph
    /\ UNCHANGED <<transactions, min_support>>

\* a method of the miner: the list is what the method leaves behind
MinerCall(op, args, res) ==
    /\ call.op \notin FrameOps
    /\ call' = Called(op, args, 0, res)
    /\ transactions' = transactions_after(M)
    /\ UNCHANGED <<nodes, graph, min_support>>

Returned ==
    /\ call.op \in FrameOps
    /\ call' = NoCall
    /\ UNCHANGED <<nodes, graph, transactions, min_support>>

NextFrame ==
    \/ call.op \notin FrameOps /\ BuildGraphFromTransactions
    \/ \E item \in Items :
           GraphCall("get_neighbors", <<item>>, get_neighbors(G, item),
                     get_neighbors_after(G, item))
    \/ \E item1, item2 \in Items :
           GraphCall("get_edge_weight", <<item1, item2>>,
                     get_edge_weight(G, item1, item2),
                     get_edge_weight_after(G, item1, item2))
    \/ \E item \in Items :
           GraphCall("get_degree", <<item>>, get_degree(G, item),
                     get_degree_after(G, item))
    \/ \E item \in Items :
           GraphCall("get_top_connections", <<item, MaxN>>,
                     get_top_connections(G, item, MaxN),
                     get_top_connections_after(G, item))
    \/ \E item1, item2 \in Items :
           GraphCall("has_edge", <<item1, item2>>, has_edge(G, item1, item2),
                     has_edge_after(G, item1, item2))
    \/ GraphCall("get_graph_info", <<>>, get_graph_info(G),
                 get_graph_info_after(G))
    \/ GraphCall("get_edge_count", <<>>, get_edge_count(G),
                 get_edge_count_after(G))
    \/ \E item \in Items : \E max_depth \in Depths :
           GraphCall("bfs", <<item, max_depth>>, bfs(G, item, max_depth),
                     bfs_after(G, item, max_depth))
    \/ \E item \in Items : \E max_depth \in Depths :
           GraphCall("dfs", <<item, max_depth>>, dfs(G, item, max_depth),
                     dfs_after(G, item, max_depth))
    \/ \E item1, item2 \in Items :
           GraphCall("find_path", <<item1, item2>>, find_path(G, item1, item2),
                     find_path_after(G, item1, item2))
    \/ \E item1, item2 \in Items :
           GraphCall("is_connected", <<item1, item2>>,
                     is_connected(G, item1, item2),
                     find_path_after(G, item1, item2))
    \/ \E order \in Orders(nodes) :
           GraphCall("find_connected_components", <<>>,
                     find_connected_components(G, order),
                     find_connected_components_after(G))
    \/ \E item \in Items : \E distance \in 0..MaxDepth :
           GraphCall("get_items_within_distance", <<item, distance>>,
                     get_items_within_distance(G, item, distance),
                     get_items_within_distance_after(G, item, distance))
    \/ \E item \in Items :
           GraphCall("find_strongest_connections", <<item, MaxN>>,
                     find_strongest_connections(G, item, MaxN),
                     get_top_connections_after(G, item))
    \/ \E item \in Items :
           GraphCall("get_clustering_coefficient", <<item>>,
                     get_clustering_coefficient(G, item),
                     get_clustering_coefficient_after(G, item))
    \/ \E item \in Items : \E exclude_items \in SUBSET Items :
           GraphCall("recommend_for_item", <<item, MaxN, exclude_items>>,
                     recommend_for_item(G, item, MaxN, exclude_items),
                     recommend_for_item_after(G, item))
    \/ \E basket \in Baskets :
           GraphCall("recommend_for_basket", <<basket, MaxN>>,
                     recommend_for_basket(G, basket, MaxN),
                     recommend_for_basket_after(G, basket))
    \/ \E max_bundle_size \in 1..MaxBundle : \E order \in Orders(nodes) :
           GraphCall("find_product_bundles", <<1, max_bundle_size, MaxN>>,
                     find_product_bundles(G, 1, max_bundle_size, MaxN, order),
                     find_product_bundles_after(G, nodes))
    \/ \E item \in Items : \E order \in Orders(nodes) :
           GraphCall("get_similar_items", <<item, MaxN>>,
                     get_similar_items(G, item, MaxN, order),
                     get_similar_items_after(G, item))
    \/ \E item \in Items :
           GraphCall("get_complementary_items", <<item, MaxN>>,
                     get_complementary_items(G, item, MaxN),
                     recommend_for_item_after(G, item))
    \/ MinerCall("find_frequent_1_itemsets", <<>>, find_frequent_1_itemsets(M))
    \/ MinerCall("find_frequent_pairs", <<>>, find_frequent_pairs(M))
    \/ \E k \in 0..MaxK :
           MinerCall("find_frequent_k_itemsets", <<k>>,
                     find_frequent_k_itemsets(M, k))
    \/ \E max_k \in 0..MaxK : MinerCall("apriori", <<max_k>>, apriori(M, max_k))
    \/ MinerCall("get_top_n_pairs", <<MaxN>>, get_top_n_pairs(M, MaxN))
    \/ \E min_confidence \in 0..ConfDen :
           MinerCall("get_association_rules", <<min_confidence>>,
                     get_association_rules(M, min_confidence))
    \/ Returned

SpecFrame == InitFrame /\ [][NextFrame]_vars

\* ------------------------------------- two add_edge calls without a lock
\* Two threads run add_edge(item1, item2, weight) on one graph.  call holds
\* the calls in flight: args the items and the two weights, res the weights
\* of the two directions before the calls, pre[t] the position of thread t:
\* pc is the statement it is at, dir the direction it is updating (1 is
\* graph[item1][item2]), seen the weight it has read (0 for no entry), and
\* stale[d] tells that its write to direction d replaced a weight other than
\* the one it had seen.  add_node is one step; each weight update is a test
\* step, then a read step and a write step.
Threads == {1, 2}

RaceStarts ==
    {EmptyGraph} \cup
    {add_edge(EmptyGraph, x, y, w) : x \in Items, y \in Items, w \in 1..MaxAdd}

InitRace ==
    /\ \E st \in RaceStarts : nodes = st.nodes /\ graph = st.graph
    /\ transactions = <<>>
    /\ min_support = 0
    /\ call = NoCall

Racing == call.op = "add_edge"  /\ DOMAIN call.pre = Threads

Source(t) == IF call.pre[t].dir = 1 THEN call.args[1] ELSE call.args[2]

Target(t) == IF call.pre[t].dir = 1 THEN call.args[2] ELSE call.args[1]

Weight(t) == call.args[3][t]

\* the value the write step of  d[k] += weight  stores
written_assign(seen, weight) == weight

written(seen, weight) == seen + weight

\* the thread moves on to the reverse direction, or returns
NextStatement(th, stale) ==
    IF th.dir = 1
    THEN [pc |-> "test", dir |-> 2, seen |-> 0,
          stale |-> [th.stale EXCEPT ![1] = stale]]
    ELSE [pc |-> "done", dir |-> 2, seen |-> 0,
          stale |-> [th.stale EXCEPT ![2] = stale]]

Move(t, th, st) ==
    /\ call' = [call EXCEPT !.pre[t] = th]
    /\ nodes' = st.nodes
    /\ graph' = st.graph
    /\ UNCHANGED <<transactions, min_support>>

Begin(item1, item2, weight1, weight2) ==
    /\ call = NoCall
    /\ item1 # item2
    /\ call' = Called("add_edge", <<item1, item2, <<weight1, weight2>>>>,
                      [t \in Threads |->
                          [pc |-> "add_node", dir |-> 1, seen |-> 0,
                           stale |-> <<FALSE, FALSE>>]],
                      <<get_edge_weight(G, item1, item2),
                        get_edge_weight(G, item2, item1)>>)
    /\ UNCHANGED <<nodes, graph, transactions, min_support>>

\* self.add_node(item1); self.add_node(item2)
AddNodes(t) ==
    /\ Racing
    /\ call.pre[t].pc = "add_node"
    /\ Move(t, [call.pre[t] EXCEPT !.pc = "test"],
            add_node(add_node(G, call.args[1]), call.args[2]))

\* if item2 in self.graph[item1]
TestEntry(t) ==
    /\ Racing
    /\ call.pre[t].pc = "test"
    /\ LET g == Touch(graph, Source(t))
       IN Move(t, [call.pre[t] EXCEPT
                      !.pc = IF Target(t) \in DictKeys(g[Source(t)])
                             THEN "read" ELSE "set"],
               [nodes |-> nodes, graph |-> g])

\* the read of  self.graph[item1][item2] += weight
ReadWeight(t) ==
    /\ Racing
    /\ call.pre[t].pc = "read"
    /\ Move(t, [call.pre[t] EXCEPT
                   !.pc = "write",
                   !.seen = get_edge_weight(G, Source(t), Target(t))],
            G)

\* the write of  self.graph[item1][item2] += weight
WriteWeight(t) ==
    /\ Racing
    /\ call.pre[t].pc = "write"
    /\ LET g == Touch(graph, Source(t))
       IN Move(t, NextStatement(call.pre[t],
                     get_edge_weight(G, Source(t), Target(t)) # call.pre[t].seen),
               [nodes |-> nodes,
                graph |-> [g EXCEPT ![Source(t)] =
                              DictSet(g[Source(t)], Target(t),
                                      written(call.pre[t].seen, Weight(t)))]])

\* self.graph[item1][item2] = weight
SetWeight(t) ==
    /\ Racing
    /\ call.pre[t].pc = "set"
    /\ LET g == Touch(graph, Source(t))
       IN Move(t, NextStatement(call.pre[t],
                     get_edge_weight(G, Source(t), Target(t)) # 0),
               [nodes |-> nodes,
                graph |-> [g EXCEPT ![Source(t)] =
                              DictSet(g[Source(t)], Target(t), Weight(t))]])

NextRace ==
    \/ \E item1, item2 \in Items : \E weight1, weight2 \in 1..MaxAdd :
           Begin(item1, item2, weight1, weight2)
    \/ \E t \in Threads : AddNodes(t)
    \/ \E t \in Threads : TestEntry(t)
    \/ \E t \in Threads : ReadWeight(t)
    \/ \E t \in Threads : WriteWeight(t)
    \/ \E t \in Threads : SetWeight(t)

SpecRace == InitRace /\ [][NextRace]_vars

\* ----------------------------------------------------------------- claims
\* items joined to x by an edge, and the items within d edges of a
Adjacent(x) == {y \in Items : has_edge(G, x, y)}

RECURSIVE Ball(_, _)
Ball(a, d) ==
    IF d = 0 THEN {a}
    ELSE LET B == Ball(a, d - 1) IN B \cup UNION {Adjacent(x) : x \in B}

Reachable(a, b) == b \in Ball(a, Cardinality(Items))

Dist(a, b) ==
    CHOOSE d \in 0..Cardinality(Items) :
        b \in Ball(a, d) /\ \A e \in 0..(d - 1) : b \notin Ball(a, e)

\* C1: in every state reached by add_node, add_edge and remove_node the edge
\* weight and the edge test are symmetric for every pair of items, known or
\* not, and a get_edge_weight(a,b) call returns the weight of (b,a).
C1_Symmetry ==
    /\ \A a, b \in Items :
          /\ get_edge_weight(G, a, b) = get_edge_weight(G, b, a)
          /\ has_edge(G, a, b) <=> has_edge(G, b, a)
    /\ call.op = "get_edge_weight" =>
          call.res = get_edge_weight(G, call.args[2], call.args[1])
    /\ call.op = "has_edge" =>
          (call.res <=> has_edge(G, call.args[2], call.args[1]))

C1_Witness ==
    /\ call.op = "get_edge_weight"
    /\ call.args[1] # call.args[2]
    /\ call.res = 2

\* C2: add_edge(a,b,w1) on a graph with no edge between a and b, followed by
\* add_edge(a,b,w2), leaves get_edge_weight(a,b) = w1 + w2, for a = b too.
C2_TwiceAdditive ==
    [][ ( /\ call.op = "add_edge" /\ call.pre = 0
          /\ call'.op = "add_edge"
          /\ call'.args[1] = call.args[1]
          /\ call'.args[2] = call.args[2] )
        => get_edge_weight([nodes |-> nodes', graph |-> graph'],
                           call.args[1], call.args[2])
             = call.args[3] + call'.args[3] ]_vars

\* C3: every key of the adjacency structure and every neighbour in an inner
\* map is in nodes, and every member of nodes is a key.
C3_AdjacencyWithinNodes ==
    /\ \A n \in DOMAIN graph : n \in nodes /\ DictKeys(graph[n]) \subseteq nodes
    /\ nodes \subseteq DOMAIN graph

C3_Witness ==
    /\ call.op = "remove_node"
    /\ call.pre >= 1
    /\ \E n \in nodes : call.args[1] # n

\* C4: the sum of the adjacency sizes is even and get_edge_count is the number
\* of distinct unordered item pairs joined by an edge.
C4_EdgeCountExact ==
    /\ SumSizes(graph, DOMAIN graph) % 2 = 0
    /\ get_edge_count(G) =
          Cardinality({{a, b} : a, b \in Items} \cap
                      {p \in SUBSET Items : \E a, b \in p :
                           p = {a, b} /\ has_edge(G, a, b)})

\* C8: for known a and b, find_path(a,b) returns a path exactly when b is in
\* bfs(a), that is when b can be reached from a; it returns none when a or b
\* is unknown; is_connected(a,b) is true exactly when find_path is not none.
C8_PathIffReachable ==
    /\ call.op = "find_path" =>
          LET a == call.args[1]
              b == call.args[2]
          IN IF a \in nodes /\ b \in nodes
             THEN /\ call.res # NoPath <=> b \in SeqToSet(bfs(G, a, None))
                  /\ call.res # NoPath <=> Reachable(a, b)
             ELSE call.res = NoPath
    /\ call.op = "is_connected" =>
          LET a == call.args[1]
              b == call.args[2]
          IN /\ call.res <=> find_path(G, a, b) # NoPath
             /\ call.res <=> (a \in nodes /\ b \in nodes /\ Reachable(a, b))

C8_Witness ==
    /\ call.op = "find_path"
    /\ Len(call.res) = 3

\* C9: a path returned by find_path(a,b) starts with a, ends with b, joins
\* consecutive items by edges, and has the fewest edges of any a-b path.
C9_ShortestPath ==
    (call.op = "find_path" /\ call.res # NoPath) =>
        LET p == call.res
        IN /\ p[1] = call.args[1]
           /\ p[Len(p)] = call.args[2]
           /\ \A i \in 1..(Len(p) - 1) : has_edge(G, p[i], p[i + 1])
           /\ Len(p) - 1 = Dist(call.args[1], call.args[2])

C9_Witness ==
    /\ call.op = "find_path"
    /\ Len(call.res) = 2
    /\ call.args[1] # call.args[2]
    /\ \E c \in Items \ {call.args[1], call.args[2]} :
          has_edge(G, call.args[1], c) /\ has_edge(G, c, call.args[2])

\* C10: find_connected_components returns non-empty, pairwise disjoint sets
\* whose union is the node set.
C10_ComponentsPartition ==
    call.op = "find_connected_components" =>
        LET cs == call.res
        IN /\ \A i \in 1..Len(cs) : cs[i] # {}
           /\ \A i, j \in 1..Len(cs) : i # j => cs[i] \cap cs[j] = {}
           /\ UNION {cs[i] : i \in 1..Len(cs)} = nodes

C10_Witness ==
    /\ call.op = "find_connected_components"
    /\ Len(call.res) = 2
    /\ \E i \in 1..2 : Cardinality(call.res[i]) = 2

\* C5: every itemset returned by find_frequent_k_itemsets(k), k >= 2, has all
\* its subsets of size k-1 among the keys of find_frequent_k_itemsets(k-1).
C5_AprioriMonotone ==
    (call.op = "find_frequent_k_itemsets" /\ call.args[1] >= 2) =>
        \A S \in DictKeys(call.res) :
            \A T \in SUBSET S :
                Cardinality(T) = call.args[1] - 1 =>
                    T \in DictKeys(find_frequent_k_itemsets(M, call.args[1] - 1))

\* C6: every rule returned by get_association_rules has a support and a
\* confidence between 0 and 1.
C6_RuleBounds ==
    (call.op = "get_association_rules" /\ ~call.res.fault) =>
        \A i \in 1..Len(call.res.rules) :
            LET r == call.res.rules[i]
            IN /\ 0 <= r.support[1] /\ r.support[1] <= r.support[2]
               /\ 0 <= r.confidence[1] /\ r.confidence[1] <= r.confidence[2]

\* C7: get_association_rules never ends in a division by zero; it returns a
\* list of rules.
C7_NoDivisionByZero ==
    call.op = "get_association_rules" => ~call.res.fault

\* C11: for a known start and max_depth None or >= 0, bfs returns a sequence
\* that begins with start, holds no item twice and is no longer than
\* get_node_count().
C11_BfsShape ==
    (call.op = "bfs" /\ call.args[1] \in nodes) =>
        LET r == call.res
        IN /\ Len(r) >= 1
           /\ r[1] = call.args[1]
           /\ \A i, j \in 1..Len(r) : i # j => r[i] # r[j]
           /\ Len(r) <= get_node_count(G)

C11_Witness ==
    /\ call.op = "bfs"
    /\ call.args[2] = 1
    /\ Len(call.res) = 2
    /\ Cardinality(SeqToSet(bfs(G, call.args[1], None))) = 3

\* the number of transactions that contain every member of S
ContainCount(S) ==
    Cardinality({i \in 1..Len(transactions) : S \subseteq SeqToSet(transactions[i])})

\* C12: for k >= 1, find_frequent_k_itemsets(k) returns exactly the sets of k
\* distinct items contained in at least min_support_count transactions, each
\* mapped to the number of transactions that contain it.
C12_ExactItemsets ==
    (call.op = "find_frequent_k_itemsets" /\ call.args[1] >= 1) =>
        /\ DictKeys(call.res) =
              {S \in SUBSET Items : /\ Cardinality(S) = call.args[1]
                                    /\ ContainCount(S) >= min_support_count(M)}
        /\ \A S \in DictKeys(call.res) : DictGet(call.res, S) = ContainCount(S)

\* C13: for every k in 1..max_k, apriori(max_k) leaves level k out only if
\* find_frequent_k_itemsets(k) is empty, every level present equals
\* find_frequent_k_itemsets(k), and the levels present are 1..m.
C13_EarlyStopLosesNothing ==
    call.op = "apriori" =>
        /\ \A k \in 1..call.args[1] :
              IF k \in DictKeys(call.res)
              THEN DictGet(call.res, k) = find_frequent_k_itemsets(M, k)
              ELSE find_frequent_k_itemsets(M, k) = <<>>
        /\ \E m \in 0..call.args[1] : DictKeys(call.res) = 1..m

\* C14: get_graph_info returns the six fields num_nodes, num_edges,
\* avg_degree, max_degree, min_degree and density for every graph, the empty
\* one included, and density is 0 when there are fewer than 2 nodes.
C14_GraphInfoFields ==
    call.op = "get_graph_info" =>
        /\ DOMAIN call.res = {"num_nodes", "num_edges", "avg_degree",
                              "max_degree", "min_degree", "density"}
        /\ Cardinality(nodes) < 2 => call.res.density[1] = 0

\* C15: a query given an item that is not a node returns its neutral value
\* (no neighbors, weight 0, degree 0, no connections, no edge, no traversal,
\* no path, nothing within distance, no recommendation, no similar item) and
\* does not fail: for the logged call, and for every item outside the graph
\* under every other argument.
Neutral(op) ==
    CASE op \in {"get_neighbors", "get_top_connections", "bfs", "dfs",
                 "recommend_for_item", "get_similar_items"} -> <<>>
      [] op \in {"get_edge_weight", "get_degree"} -> 0
      [] op = "has_edge" -> FALSE
      [] op = "find_path" -> NoPath
      [] op = "get_items_within_distance" -> {}

OneItemOps ==
    {"get_neighbors", "get_degree", "get_top_connections", "bfs", "dfs",
     "get_items_within_distance", "recommend_for_item", "get_similar_items"}

TwoItemOps == {"get_edge_weight", "has_edge", "find_path"}

OnUnknownItem ==
    \/ call.op \in OneItemOps /\ call.args[1] \notin nodes
    \/ call.op \in TwoItemOps /\ (call.args[1] \notin nodes \/ call.args[2] \notin nodes)

C15_UnknownItemNeutral ==
    /\ OnUnknownItem => call.res = Neutral(call.op)
    /\ \A item \in Items \ nodes :
          /\ get_neighbors(G, item) = <<>>
          /\ get_degree(G, item) = 0
          /\ \A other \in Items :
                /\ get_edge_weight(G, item, other) = 0
                /\ get_edge_weight(G, other, item) = 0
                /\ ~has_edge(G, item, other)
                /\ ~has_edge(G, other, item)
                /\ find_path(G, item, other) = NoPath
                /\ find_path(G, other, item) = NoPath
          /\ \A n \in 0..MaxN :
                /\ get_top_connections(G, item, n) = <<>>
                /\ \A exclude_items \in SUBSET Items :
                      recommend_for_item(G, item, n, exclude_items) = <<>>
                /\ \A order \in Orders(nodes) :
                      get_similar_items(G, item, n, order) = <<>>
          /\ \A max_depth \in Depths :
                /\ bfs(G, item, max_depth) = <<>>
                /\ dfs(G, item, max_depth) = <<>>
          /\ \A distance \in 0..MaxDepth :
                get_items_within_distance(G, item, distance) = {}

\* a traversal was asked from an item outside a graph that has edges
C15_Witness ==
    /\ call.op = "bfs"
    /\ call.args[1] \notin nodes
    /\ get_edge_count(G) > 0
    /\ call.res = <<>>

\* C16: every entry (other, s) of get_similar_items(item, n) has s the
\* Jaccard similarity |N(item) /\ N(other)| / |N(item) \/ N(other)| of the
\* two neighbor sets, a number in [0, 1]; item itself never appears, and no
\* item with an empty neighbor set appears.
N(x) == {y \in Items : has_edge(G, x, y)}

C16_SimilarIsJaccard ==
    call.op = "get_similar_items" =>
        \A i \in 1..Len(call.res) :
            LET other == call.res[i][1]
                s == call.res[i][2]
                both == Cardinality(N(call.args[1]) \cap N(other))
                any == Cardinality(N(call.args[1]) \cup N(other))
            IN /\ other # call.args[1]
               /\ N(other) # {}
               /\ s[2] > 0
               /\ 0 <= s[1] /\ s[1] <= s[2]
               /\ s[1] * any = both * s[2]

\* an entry with a similarity strictly between 0 and 1
C16_Witness ==
    /\ call.op = "get_similar_items"
    /\ \E i \in 1..Len(call.res) :
          0 < call.res[i][2][1] /\ call.res[i][2][1] < call.res[i][2][2]

\* C17: for a known item, recommend_for_item(item, n, exclude) returns
\* min(n, m) entries, m the number of neighbors of item that are not
\* excluded; each entry is such a neighbor with its edge weight, no neighbor
\* twice, the weights do not increase along the list, and no omitted
\* non-excluded neighbor is strictly heavier than a returned one.
Candidates(item, exclude_items) ==
    {y \in Items : has_edge(G, item, y) /\ y \notin exclude_items}

C17_RecommendForItem ==
    (call.op = "recommend_for_item" /\ call.args[1] \in nodes) =>
        LET item == call.args[1]
            n == call.args[2]
            cand == Candidates(item, call.args[3])
            m == Cardinality(cand)
            res == call.res
            returned == {res[i][1] : i \in 1..Len(res)}
        IN /\ Len(res) = IF n < m THEN n ELSE m
           /\ \A i \in 1..Len(res) :
                 /\ res[i][1] \in cand
                 /\ res[i][2] = get_edge_weight(G, item, res[i][1])
           /\ \A i, j \in 1..Len(res) :
                 i < j => res[i][1] # res[j][1] /\ res[i][2] >= res[j][2]
           /\ \A y \in cand \ returned : \A i \in 1..Len(res) :
                 get_edge_weight(G, item, y) <= res[i][2]

\* the heavier of two neighbors was returned and the lighter one omitted,
\* although the lighter one was added first
C17_Witness ==
    /\ call.op = "recommend_for_item"
    /\ call.args[1] \in nodes
    /\ Len(call.res) = 1
    /\ Len(get_neighbors(G, call.args[1])) >= 2
    /\ get_neighbors(G, call.args[1])[1][1] \notin call.args[3]
    /\ get_neighbors(G, call.args[1])[1][2] < call.res[1][2]

\* C18: recommend_for_basket(basket, n) never returns an item of the basket
\* and returns at most n entries.
C18_BasketExcluded ==
    call.op = "recommend_for_basket" =>
        /\ Len(call.res) <= call.args[2]
        /\ \A i \in 1..Len(call.res) : call.res[i][1] \notin SeqToSet(call.args[1])

\* two adjacent items are in the basket and a third item is recommended
C18_Witness ==
    /\ call.op = "recommend_for_basket"
    /\ Len(call.args[1]) = 2
    /\ has_edge(G, call.args[1][1], call.args[1][2])
    /\ call.args[1][1] # call.args[1][2]
    /\ Len(call.res) = 1

\* C19: after build_graph_from_transactions on a fresh loader with a
\* non-empty transaction list, the nodes of the graph are the distinct items
\* of the transactions, so get_node_count() is the unique_items value of
\* get_transaction_stats().
C19_NodesAreItems ==
    (/\ call.op = "build_graph_from_transactions"
     /\ call.pre = TRUE
     /\ transactions # <<>>) =>
        /\ nodes = all_items(transactions)
        /\ get_node_count(G) = get_transaction_stats(L).unique_items

\* C20: for a known start and max_depth >= 0, dfs(start, max_depth) returns
\* the same set of items as bfs(start, max_depth): the items at most
\* max_depth edges away from start.
RECURSIVE DeepBall(_, _)
DeepBall(a, d) ==
    IF d = 0 THEN {a}
    ELSE LET B == DeepBall(a, d - 1)
         IN B \cup {y \in DeepItems : \E x \in B : has_edge(G, x, y)}

C20_DfsSameSetAsBfs ==
    (call.op = "dfs" /\ call.args[1] \in nodes /\ call.args[2] # None) =>
        /\ SeqToSet(call.res) = SeqToSet(bfs(G, call.args[1], call.args[2]))
        /\ SeqToSet(call.res) = DeepBall(call.args[1], call.args[2])

\* C21: for a known start and d >= 0, the set of items of bfs(start, d) is
\* get_items_within_distance(start, d), and both are the set of nodes at most
\* d edges away from start, start included.
C21_BfsIsWithinDistance ==
    (call.op = "bfs" /\ call.args[1] \in nodes /\ call.args[2] # None) =>
        LET within == get_items_within_distance(G, call.args[1], call.args[2])
        IN /\ SeqToSet(call.res) = within
           /\ within = DeepBall(call.args[1], call.args[2])
           /\ call.args[1] \in within

\* on a graph of four connected items the traversal stopped before the last
C21_Witness ==
    /\ call.op = "bfs"
    /\ call.args[1] \in nodes
    /\ call.args[2] = 2
    /\ Cardinality(SeqToSet(call.res)) = 3
    /\ Cardinality(SeqToSet(bfs(G, call.args[1], None))) = 4

\* C22: build_graph_from_transactions never gives add_edge the same item as
\* both endpoints: whatever the transactions, also with an item occurring
\* twice in one of them, the built graph has no self-loop.
C22_NoSelfLoopBuilt ==
    call.op = "build_graph_from_transactions" =>
        \A a \in Items : ~has_edge(G, a, a)

\* C23: after one build_graph_from_transactions on a fresh loader, the edge
\* weight of two distinct items is the number of transactions that contain
\* both, also when items repeat inside a transaction.
Together(a, b) ==
    Cardinality({i \in 1..Len(transactions) :
                    {a, b} \subseteq SeqToSet(transactions[i])})

C23_WeightIsCooccurrence ==
    (call.op = "build_graph_from_transactions" /\ call.pre = TRUE) =>
        \A a, b \in Items : a # b => get_edge_weight(G, a, b) = Together(a, b)

\* C24: for every frequent pair (x, y) of find_frequent_pairs whose two items
\* both have a non-zero frequent-1-itemset count, get_association_rules(c)
\* emits the rule x -> y exactly when pair_count / count(x) >= c and the rule
\* y -> x exactly when pair_count / count(y) >= c; every emitted rule comes
\* from a frequent pair.
Emitted(x, y) ==
    /\ ~call.res.fault
    /\ \E i \in 1..Len(call.res.rules) :
          call.res.rules[i].antecedent = x /\ call.res.rules[i].consequent = y

C24_RulesFromPairs ==
    call.op = "get_association_rules" =>
        LET pairs == find_frequent_pairs(M)
            ones == find_frequent_1_itemsets(M)
            c == call.args[1]
        IN /\ \A i \in 1..Len(pairs) :
                 LET x == pairs[i][1][1]
                     y == pairs[i][1][2]
                     pair_count == pairs[i][2]
                     cx == GetCount(ones, x)
                     cy == GetCount(ones, y)
                 IN (cx > 0 /\ cy > 0) =>
                       /\ Emitted(x, y) <=> pair_count * ConfDen >= c * cx
                       /\ Emitted(y, x) <=> pair_count * ConfDen >= c * cy
           /\ \A j \in 1..Len(call.res.rules) :
                 \E i \in 1..Len(pairs) :
                     {call.res.rules[j].antecedent, call.res.rules[j].consequent}
                         = {pairs[i][1][1], pairs[i][1][2]}

\* C25: the score recommend_for_basket gives a candidate c is the sum of
\* get_edge_weight(b, c) over the distinct known items b of the basket, and
\* the entries returned are the n highest such scores, highest first (no
\* item of the model has more than BasketCap neighbors).
RECURSIVE SumWeights(_, _)
SumWeights(bs, c) ==
    IF bs = {} THEN 0
    ELSE LET b == CHOOSE x \in bs : TRUE
         IN get_edge_weight(G, b, c) + SumWeights(bs \ {b}, c)

C25_BasketScores ==
    call.op = "recommend_for_basket" =>
        LET basket == SeqToSet(call.args[1])
            n == call.args[2]
            known == basket \cap nodes
            cand == {c \in Items \ basket : \E b \in known : has_edge(G, b, c)}
            res == call.res
            returned == {res[i][1] : i \in 1..Len(res)}
        IN /\ Cardinality(Items) <= BasketCap
           /\ Len(res) = IF n < Cardinality(cand) THEN n ELSE Cardinality(cand)
           /\ \A i \in 1..Len(res) :
                 /\ res[i][1] \in cand
                 /\ res[i][2] = SumWeights(known, res[i][1])
           /\ \A i, j \in 1..Len(res) :
                 i < j => res[i][1] # res[j][1] /\ res[i][2] >= res[j][2]
           /\ \A c \in cand \ returned : \A i \in 1..Len(res) :
                 SumWeights(known, c) <= res[i][2]

\* C26: for 1 <= min_bundle_size <= max_bundle_size, every bundle returned
\* by find_product_bundles is a sorted list of pairwise distinct items whose
\* length lies between min_bundle_size and max_bundle_size, and no two
\* returned bundles have the same item list.
C26_BundlesWellFormed ==
    call.op = "find_product_bundles" =>
        /\ \A i \in 1..Len(call.res) :
              LET bundle == call.res[i][1]
              IN /\ call.args[1] <= Len(bundle) /\ Len(bundle) <= call.args[2]
                 /\ \A p, q \in 1..Len(bundle) :
                       p < q => Rank(bundle[p]) < Rank(bundle[q])
        /\ \A i, j \in 1..Len(call.res) :
              i # j => call.res[i][1] # call.res[j][1]

\* C27: remove_node(x) on a known x leaves x out of nodes and out of every
\* adjacency map, as key and as neighbor, and keeps every other node and the
\* weight of every edge between two other nodes; on an unknown x it changes
\* nothing of the graph.
RemoveNodeFrame ==
    call'.op = "remove_node" =>
        LET x == call'.args[1]
            after == [nodes |-> nodes', graph |-> graph']
        IN IF x \in nodes
           THEN /\ nodes' = nodes \ {x}
                /\ x \notin DOMAIN graph'
                /\ \A k \in DOMAIN graph' : x \notin DictKeys(graph'[k])
                /\ \A a, b \in Items \ {x} :
                      get_edge_weight(after, a, b) = get_edge_weight(G, a, b)
           ELSE nodes' = nodes /\ graph' = graph

C27_RemoveNodeFrame == [][RemoveNodeFrame]_vars

\* an item with two edges was removed and an edge between two others remains
C27_Witness ==
    /\ call.op = "remove_node"
    /\ call.pre >= 2
    /\ \E a, b \in nodes : a # b /\ has_edge(G, a, b)

\* C28: every query leaves the graph and the transaction list as they were:
\* after a lookup of the graph, a method of the algorithms, of the
\* recommender or of the miner, with known or unknown items, the nodes, the
\* adjacency maps (no key created for an unknown item) and the order and
\* content of every transaction are the same as before.
QueryFrame ==
    call'.op \in FrameOps =>
        /\ nodes' = nodes
        /\ graph' = graph
        /\ DOMAIN graph' = DOMAIN graph
        /\ transactions' = transactions

C28_QueriesChangeNothing == [][QueryFrame]_vars

\* a lookup of an item that is not in a graph with edges, next to a list
\* with a transaction that is not in sorted order
C28_Witness ==
    /\ call.op = "get_neighbors"
    /\ call.args[1] \notin nodes
    /\ get_edge_count(G) > 0
    /\ \E i \in 1..Len(transactions) : transactions[i] # Sorted(transactions[i])

\* C29: two add_edge calls on the same pair (a, b) that run without a lock,
\* each weight update a read step and a write step, lose an update in some
\* interleaving.  When both have returned, the weight of a direction is the
\* weight before plus the two weights added unless a write replaced a weight
\* its thread had not seen, and then it is smaller; the witness is an
\* interleaving where that happens in one direction only, so the two
\* directions differ.
BothReturned == Racing /\ \A t \in Threads : call.pre[t].pc = "done"

Lost(d) == \E t \in Threads : call.pre[t].stale[d]

Expected(d) == call.res[d] + call.args[3][1] + call.args[3][2]

C29_LostUpdate ==
    BothReturned =>
        LET ab == get_edge_weight(G, call.args[1], call.args[2])
            ba == get_edge_weight(G, call.args[2], call.args[1])
        IN /\ IF Lost(1) THEN ab < Expected(1) ELSE ab = Expected(1)
           /\ IF Lost(2) THEN ba < Expected(2) ELSE ba = Expected(2)

C29_Witness ==
    /\ BothReturned
    /\ get_edge_weight(G, call.args[1], call.args[2]) < Expected(1)
    /\ get_edge_weight(G, call.args[2], call.args[1]) = Expected(2)

\* C30: find_frequent_pairs and find_frequent_k_itemsets(2) agree: the
\* (pair, count) entries of find_frequent_pairs, each pair read as the set of
\* its two items, are the (itemset, count) entries of
\* find_frequent_k_itemsets(2).
PairEntries(pairs) == {<<SeqToSet(pairs[i][1]), pairs[i][2]>> : i \in 1..Len(pairs)}

ItemsetEntries(d) == {<<d[i][1], d[i][2]>> : i \in 1..Len(d)}

C30_PairsAgree ==
    /\ call.op = "find_frequent_pairs" =>
          PairEntries(call.res) = ItemsetEntries(find_frequent_k_itemsets(M, 2))
    /\ (call.op = "find_frequent_k_itemsets" /\ call.args[1] = 2) =>
          ItemsetEntries(call.res) = PairEntries(find_frequent_pairs(M))

\* a transaction held an item twice, one pair was frequent and another not
C30_Witness ==
    /\ call.op = "find_frequent_pairs"
    /\ Len(call.res) >= 1
    /\ Len(call.res) < Len(count_pairs(<<>>, transactions))
    /\ \E i \in 1..Len(transactions) :
          Cardinality(SeqToSet(transactions[i])) < Len(transactions[i])

====
